---------------------------- MODULE Spec2Model ----------------------------
(***************************************************************************)
(* Noughts and Crosses with a minimax / alpha-beta AI.                     *)
(*                                                                         *)
(*   board.c    the board: a size and a row-wise array of cells            *)
(*   minimax.c  getBestMove / minimise / maximise                          *)
(*   main.c     the driver: play / turn / moveUser / moveAI / isEndState   *)
(*                                                                         *)
(* A board value is the record [size, cells]; cells is indexed from 0 as   *)
(* in the source.  The search mutates the board in place; the operators    *)
(* below thread the board through every call and return it beside the      *)
(* score, so that what a call leaves behind is part of its result.         *)
(*                                                                         *)
(* initBoard asks malloc for `size` chars and then uses size * size cells. *)
(* `allocated` is the length of that block and `overrun` records an access *)
(* beyond it; `cells` stands for the size * size chars the code indexes,   *)
(* those past the block being the memory that follows it, which nothing    *)
(* else in the program writes.                                             *)
(***************************************************************************)
EXTENDS Integers, Sequences, FiniteSets, TLC

\* board.h:17-21
NOUGHT == "O"
CROSS == "X"
EMPTY == " "

\* main.c: standard 3x3 Noughts and Crosses size
BOARD_SIZE == 3

\* minimax.c:7-9, INT8_MAX / INT8_MIN
SCORE_WIN == 127
SCORE_LOSE == 0 - 128
SCORE_DRAW == 0

\* main.c key constants
KEY_QUIT == "q"
KEY_YES == "y"
KEY_NO == "n"

\* conversion of an int to int8_t (the return type of minimise / maximise)
ToInt8(x) == ((x + 128) % 256) - 128

Symbols == {NOUGHT, CROSS, EMPTY}

----------------------------------------------------------------------------
(* board.c *)

\* the cells written by resetBoard: every index below size * size
resetBoard(board) ==
    [board EXCEPT !.cells = [cell \in 0 .. (board.size * board.size - 1) |-> EMPTY]]

isWinRow(board, row, symbol) ==
    \A i \in 0 .. (board.size - 1) : board.cells[(board.size * row) + i] = symbol

\* isWinCol stepping by 1 instead of by the row length
isWinColUnitStride(board, column, symbol) ==
    \A i \in 0 .. (board.size - 1) : board.cells[column + i] = symbol

isWinCol(board, column, symbol) ==
    \A i \in 0 .. (board.size - 1) : board.cells[column + (board.size * i)] = symbol

isWinForwardDiag(board, symbol) ==
    \A i \in 0 .. (board.size - 1) : board.cells[(board.size * i) + i] = symbol

isWinBackwardDiag(board, symbol) ==
    \A i \in 0 .. (board.size - 1) :
        board.cells[(board.size * (board.size - 1 - i)) + i] = symbol

isWin(board, symbol) ==
    \/ isWinForwardDiag(board, symbol)
    \/ isWinBackwardDiag(board, symbol)
    \/ \E i \in 0 .. (board.size - 1) :
           isWinRow(board, i, symbol) \/ isWinCol(board, i, symbol)

\* isDraw without its test for a win
isDrawFullOnly(board) ==
    \A cell \in 0 .. (board.size * board.size - 1) : board.cells[cell] # EMPTY

isDraw(board) ==
    IF isWin(board, NOUGHT) \/ isWin(board, CROSS)
    THEN FALSE
    ELSE \A cell \in 0 .. (board.size * board.size - 1) : board.cells[cell] # EMPTY

isValidMove(board, cell, symbol) ==
    /\ cell >= 0
    /\ cell < board.size * board.size
    /\ (symbol = EMPTY \/ board.cells[cell] = EMPTY)

getSize(board) == board.size

\* the two assertions of setCell
setCellAsserts(board, cell, symbol) ==
    /\ symbol = NOUGHT \/ symbol = CROSS \/ symbol = EMPTY
    /\ isValidMove(board, cell, symbol)

setCell(board, cell, symbol) ==
    [board EXCEPT !.cells[cell] = symbol]

getCell(board, cell) == board.cells[cell]

----------------------------------------------------------------------------
(* minimax.c *)

\* min with the comparison turned round
minSwapped(a, b) == IF a > b THEN a ELSE b

min(a, b) == IF a < b THEN a ELSE b

max(a, b) == IF a > b THEN a ELSE b

\* bestMove before its first assignment
NoMove == 0 - 1

RECURSIVE minimise(_, _, _, _, _, _)
RECURSIVE maximise(_, _, _, _, _, _)
RECURSIVE minimiseLoop(_, _, _, _, _, _, _)
RECURSIVE maximiseLoop(_, _, _, _, _, _, _)

\* the for loop of minimise from `cell` on; the value is [score, board]
minimiseLoop(board, symbolSelf, symbolOther, depth, alpha, beta, cell) ==
    IF ~(cell < getSize(board) * getSize(board))
    THEN [score |-> beta, board |-> board]
    ELSE IF isValidMove(board, cell, symbolOther)
    THEN LET r == maximise(setCell(board, cell, symbolOther),
                           symbolSelf, symbolOther, depth + 1, alpha, beta)
             unmade == setCell(r.board, cell, EMPTY)
             beta2 == min(beta, r.score)
         IN  IF beta2 <= alpha
             THEN [score |-> alpha, board |-> unmade]
             ELSE minimiseLoop(unmade, symbolSelf, symbolOther, depth,
                               alpha, beta2, cell + 1)
    ELSE minimiseLoop(board, symbolSelf, symbolOther, depth, alpha, beta, cell + 1)

\* minimise without its test for a lost position
minimiseNoLoss(board, symbolSelf, symbolOther, depth, alpha, beta) ==
    IF isDraw(board)
    THEN [score |-> SCORE_DRAW, board |-> board]
    ELSE minimiseLoop(board, symbolSelf, symbolOther, depth, alpha, beta, 0)

minimise(board, symbolSelf, symbolOther, depth, alpha, beta) ==
    IF isWin(board, symbolOther)
    THEN [score |-> ToInt8(SCORE_LOSE + depth), board |-> board]
    ELSE IF isDraw(board)
    THEN [score |-> SCORE_DRAW, board |-> board]
    ELSE minimiseLoop(board, symbolSelf, symbolOther, depth, alpha, beta, 0)

\* the for loop of maximise from `cell` on; the value is [score, board]
maximiseLoop(board, symbolSelf, symbolOther, depth, alpha, beta, cell) ==
    IF ~(cell < getSize(board) * getSize(board))
    THEN [score |-> alpha, board |-> board]
    ELSE IF isValidMove(board, cell, symbolSelf)
    THEN LET r == minimise(setCell(board, cell, symbolSelf),
                           symbolSelf, symbolOther, depth + 1, alpha, beta)
             unmade == setCell(r.board, cell, EMPTY)
             alpha2 == max(alpha, r.score)
         IN  IF alpha2 >= beta
             THEN [score |-> beta, board |-> unmade]
             ELSE maximiseLoop(unmade, symbolSelf, symbolOther, depth,
                               alpha2, beta, cell + 1)
    ELSE maximiseLoop(board, symbolSelf, symbolOther, depth, alpha, beta, cell + 1)

maximise(board, symbolSelf, symbolOther, depth, alpha, beta) ==
    IF isWin(board, symbolSelf)
    THEN [score |-> ToInt8(SCORE_WIN - depth), board |-> board]
    ELSE IF isDraw(board)
    THEN [score |-> SCORE_DRAW, board |-> board]
    ELSE maximiseLoop(board, symbolSelf, symbolOther, depth, alpha, beta, 0)

RECURSIVE getBestMoveLoop(_, _, _, _, _, _, _)
\* the for loop of getBestMove from `cell` on
getBestMoveLoop(board, symbolSelf, symbolOther, alpha, beta, bestMove, cell) ==
    IF ~(cell < getSize(board) * getSize(board))
    THEN [alpha |-> alpha, bestMove |-> bestMove, board |-> board]
    ELSE IF isValidMove(board, cell, symbolSelf)
    THEN LET r == minimise(setCell(board, cell, symbolSelf),
                           symbolSelf, symbolOther, 1, alpha, beta)
             unmade == setCell(r.board, cell, EMPTY)
         IN  IF r.score > alpha
             THEN getBestMoveLoop(unmade, symbolSelf, symbolOther,
                                  r.score, beta, cell, cell + 1)
             ELSE getBestMoveLoop(unmade, symbolSelf, symbolOther,
                                  alpha, beta, bestMove, cell + 1)
    ELSE getBestMoveLoop(board, symbolSelf, symbolOther, alpha, beta, bestMove, cell + 1)

\* The outcome of a call: `asserted` is the failure of the closing assertion
\* (the program aborts and no cell is returned), otherwise `cell` is returned.
getBestMove(board, symbolSelf) ==
    LET symbolOther == IF symbolSelf = NOUGHT THEN CROSS ELSE NOUGHT
        r == getBestMoveLoop(board, symbolSelf, symbolOther,
                             SCORE_LOSE, SCORE_WIN, NoMove, 0)
    IN  [asserted |-> ~(r.alpha # SCORE_LOSE),
         cell |-> r.bestMove,
         score |-> r.alpha,
         board |-> r.board]

----------------------------------------------------------------------------
(* State *)

VARIABLES
    board,      \* the one board_t of the program: [size, cells]
    allocated,  \* number of chars in the block board->cells points to
    overrun,    \* some cell access since creation fell outside that block
    found,      \* outcome of the last getBestMove call on `board`, or NotCalled
    pc,         \* where the driver stands: the call it is in or waits in
    symbolUser, \* play's symbolUser
    symbolAI,   \* play's symbolAI
    stack,      \* call frames of a getBestMove in progress, innermost last
    ret,        \* the score the innermost finished minimise / maximise returned
    returned    \* the last call of the search that returned: the cells at its
                \* entry and at its return

vars == <<board, allocated, overrun, found, pc, symbolUser, symbolAI,
          stack, ret, returned>>
searchVars == <<stack, ret, returned>>

NoCall == [fn |-> "", path |-> "", entry |-> <<>>, exit |-> <<>>]

NotCalled == [asserted |-> FALSE, cell |-> NoMove, score |-> 0, board |-> <<>>]

\* initBoard: the block for the cells is malloc(sizeof(char) * size)
mallocCells(size) == size

initBoard(size) == resetBoard([size |-> size, cells |-> <<>>])

\* the indices resetBoard writes
resetBoardCells(b) == 0 .. (b.size * b.size - 1)

\* an access to one of `indices` lies outside a block of `block` chars
Overruns(indices, block) == \E i \in indices : ~(i < block)

\* the symbol to move under alternating play, NOUGHT first
Count(b, symbol) == Cardinality({c \in DOMAIN b.cells : b.cells[c] = symbol})
SideToMove(b) == IF Count(b, NOUGHT) = Count(b, CROSS) THEN NOUGHT ELSE CROSS
isTerminal(b) == isWin(b, NOUGHT) \/ isWin(b, CROSS) \/ isDraw(b)

\* the state main leaves after initBoard(size)
Created(size) ==
    /\ board = initBoard(size)
    /\ allocated = mallocCells(size)
    /\ overrun = Overruns(resetBoardCells(board), allocated)

----------------------------------------------------------------------------
(* SpecBoard: the board operations on boards of every size in Sizes *)

\* the sizes the board is exercised with
Sizes == 1 .. 4

\* boards larger than the game's carry at most this many symbols
MaxMarks == 4

Marks(b) == Cardinality({c \in DOMAIN b.cells : b.cells[c] # EMPTY})

InitBoards ==
    /\ \E size \in Sizes : Created(size)
    /\ found = NotCalled
    /\ pc = "board"
    /\ symbolUser = EMPTY
    /\ symbolAI = EMPTY
    /\ stack = <<>>
    /\ ret = 0
    /\ returned = NoCall

\* setCell(board, cell, symbol) with its assertions holding
SetCell(cell, symbol) ==
    /\ setCellAsserts(board, cell, symbol)
    /\ symbol # EMPTY => (board.size <= BOARD_SIZE \/ Marks(board) < MaxMarks)
    /\ board' = setCell(board, cell, symbol)
    /\ overrun' = (overrun \/ Overruns({cell}, allocated))
    /\ UNCHANGED <<allocated, found, pc, symbolUser, symbolAI, searchVars>>

ResetBoard ==
    /\ board' = resetBoard(board)
    /\ overrun' = (overrun \/ Overruns(resetBoardCells(board), allocated))
    /\ UNCHANGED <<allocated, found, pc, symbolUser, symbolAI, searchVars>>

NextBoards ==
    \/ \E cell \in 0 .. (board.size * board.size - 1), symbol \in Symbols :
           SetCell(cell, symbol)
    \/ ResetBoard

SpecBoard == InitBoards /\ [][NextBoards]_vars

----------------------------------------------------------------------------
(* SpecSearch: getBestMove on every position of legal alternating play *)

InitSearch ==
    /\ Created(BOARD_SIZE)
    /\ found = NotCalled
    /\ pc = "position"
    /\ symbolUser = EMPTY
    /\ symbolAI = EMPTY
    /\ stack = <<>>
    /\ ret = 0
    /\ returned = NoCall

\* one legal move of the side to move
LegalMove(cell) ==
    /\ ~isTerminal(board)
    /\ isValidMove(board, cell, SideToMove(board))
    /\ board' = setCell(board, cell, SideToMove(board))
    /\ found' = NotCalled
    /\ UNCHANGED <<allocated, overrun, pc, symbolUser, symbolAI, searchVars>>

\* getBestMove for the side to move
CallGetBestMove ==
    /\ found = NotCalled
    /\ ~isTerminal(board)
    /\ found' = getBestMove(board, SideToMove(board))
    /\ board' = found'.board
    /\ UNCHANGED <<allocated, overrun, pc, symbolUser, symbolAI, searchVars>>

NextSearch ==
    \/ \E cell \in 0 .. (BOARD_SIZE * BOARD_SIZE - 1) : LegalMove(cell)
    \/ CallGetBestMove

SpecSearch == InitSearch /\ [][NextSearch]_vars

----------------------------------------------------------------------------
(* Spec: the driver of main.c, one action per blocking input or move *)

\* what getInput can deliver: the keys the driver tells apart, and one other
Digits == {"0", "1", "2", "3", "4", "5", "6", "7", "8", "9"}
Keys == {KEY_QUIT, KEY_YES, KEY_NO, "?"} \cup Digits

\* input - '0' for a digit key
DigitValue(input) ==
    CASE input = "0" -> 0 [] input = "1" -> 1 [] input = "2" -> 2
      [] input = "3" -> 3 [] input = "4" -> 4 [] input = "5" -> 5
      [] input = "6" -> 6 [] input = "7" -> 7 [] input = "8" -> 8
      [] input = "9" -> 9

\* getInputLoop taking any digit for a move, valid or not
getInputLoopAnyDigit(b, symbol, isYesNo, isNumber, validSize, input) ==
    IF ~validSize
    THEN KEY_QUIT
    ELSE IF \/ input = KEY_QUIT
            \/ (isYesNo /\ (input = KEY_YES \/ input = KEY_NO))
            \/ (isNumber /\ input \in Digits)
    THEN input
    ELSE ""

\* One pass of getInputLoop's body: the value returned, or "" when the loop
\* goes round again.  validSize is what isTerminalValidSize() reads.
getInputLoop(b, symbol, isYesNo, isNumber, validSize, input) ==
    IF ~validSize
    THEN KEY_QUIT
    ELSE IF \/ input = KEY_QUIT
            \/ (isYesNo /\ (input = KEY_YES \/ input = KEY_NO))
            \/ (isNumber /\ input \in Digits
                    /\ isValidMove(b, DigitValue(input), symbol))
    THEN input
    ELSE ""

\* isEndState, the messages left out
isEndState(b, user, ai) ==
    IF isWin(b, user) THEN TRUE
    ELSE IF isWin(b, ai) THEN TRUE
    ELSE IF isDraw(b) THEN TRUE
    ELSE FALSE

\* main up to the first prompt of play: the board exists and is empty
Init ==
    /\ Created(BOARD_SIZE)
    /\ found = NotCalled
    /\ pc = "getSymbol"
    /\ symbolUser = EMPTY
    /\ symbolAI = EMPTY
    /\ stack = <<>>
    /\ ret = 0
    /\ returned = NoCall

\* GetSymbol with play's resetBoard left out
GetSymbolNoReset(validSize, input) ==
    /\ pc = "getSymbol"
    /\ LET key == getInputLoop(board, EMPTY, TRUE, FALSE, validSize, input)
       IN  /\ key # ""
           /\ IF key = KEY_QUIT
              THEN /\ pc' = "exit"
                   /\ UNCHANGED <<board, symbolUser, symbolAI>>
              ELSE /\ symbolUser' = (IF key = KEY_YES THEN NOUGHT ELSE CROSS)
                   /\ board' = board
                   /\ symbolAI' = (IF symbolUser' = NOUGHT THEN CROSS ELSE NOUGHT)
                   /\ pc' = (IF symbolUser' = NOUGHT THEN "moveUser" ELSE "moveAI")
    /\ found' = NotCalled
    /\ UNCHANGED <<allocated, overrun, searchVars>>

\* getSymbol, and on a symbol the head of play's do loop up to the first move
GetSymbol(validSize, input) ==
    /\ pc = "getSymbol"
    /\ LET key == getInputLoop(board, EMPTY, TRUE, FALSE, validSize, input)
       IN  /\ key # ""
           /\ IF key = KEY_QUIT
              THEN /\ pc' = "exit"
                   /\ UNCHANGED <<board, symbolUser, symbolAI>>
              ELSE /\ symbolUser' = (IF key = KEY_YES THEN NOUGHT ELSE CROSS)
                   /\ board' = resetBoard(board)
                   /\ symbolAI' = (IF symbolUser' = NOUGHT THEN CROSS ELSE NOUGHT)
                   /\ pc' = (IF symbolUser' = NOUGHT THEN "moveUser" ELSE "moveAI")
    /\ found' = NotCalled
    /\ UNCHANGED <<allocated, overrun, searchVars>>

\* where the program stands after a failed assert
AbortSetCell == "abort in setCell"
AbortGetBestMove == "abort in getBestMove"

\* ApplyMove with the result of isEndState ignored
ApplyMoveNoEndTest(b, cell, symbol, next) ==
    IF ~setCellAsserts(b, cell, symbol)
    THEN /\ pc' = AbortSetCell
         /\ board' = b
    ELSE /\ board' = setCell(b, cell, symbol)
         /\ pc' = next

\* the setCell of a move: the failure of one of its assertions aborts
\* the program, otherwise isEndState decides where turn and play go next
ApplyMove(b, cell, symbol, next) ==
    IF ~setCellAsserts(b, cell, symbol)
    THEN /\ pc' = AbortSetCell
         /\ board' = b
    ELSE /\ board' = setCell(b, cell, symbol)
         /\ pc' = (IF isEndState(board', symbolUser, symbolAI)
                   THEN "isReplay" ELSE next)

\* moveUser, and what turn and play do with its result
MoveUser(validSize, input) ==
    /\ pc = "moveUser"
    /\ LET key == getInputLoop(board, symbolUser, FALSE, TRUE, validSize, input)
       IN  /\ key # ""
           /\ IF key = KEY_QUIT
              THEN /\ pc' = "isReplay"
                   /\ board' = board
              ELSE ApplyMove(board, DigitValue(key), symbolUser, "moveAI")
    /\ found' = NotCalled
    /\ UNCHANGED <<allocated, overrun, symbolUser, symbolAI, searchVars>>

\* moveAI, and what turn and play do with its result
MoveAI ==
    /\ pc = "moveAI"
    /\ found' = getBestMove(board, symbolAI)
    /\ IF found'.asserted
       THEN /\ pc' = AbortGetBestMove
            /\ board' = found'.board
       ELSE ApplyMove(found'.board, found'.cell, symbolAI, "moveUser")
    /\ UNCHANGED <<allocated, overrun, symbolUser, symbolAI, searchVars>>

\* isReplay, and the loop condition of play
IsReplay(validSize, input) ==
    /\ pc = "isReplay"
    /\ LET key == getInputLoop(board, EMPTY, TRUE, FALSE, validSize, input)
       IN  /\ key # ""
           /\ pc' = (IF key = KEY_YES THEN "getSymbol" ELSE "exit")
    /\ UNCHANGED <<board, allocated, overrun, found, symbolUser, symbolAI, searchVars>>

Next ==
    \/ \E validSize \in BOOLEAN, input \in Keys : GetSymbol(validSize, input)
    \/ \E validSize \in BOOLEAN, input \in Keys : MoveUser(validSize, input)
    \/ MoveAI
    \/ \E validSize \in BOOLEAN, input \in Keys : IsReplay(validSize, input)

Spec == Init /\ [][Next]_vars

----------------------------------------------------------------------------
(* SpecSteps: the driver with getBestMove run call by call.  A frame is one
   activation of getBestMove, minimise or maximise: its parameters, its
   locals and where it stands (`at`): "start" before the end-state tests,
   "loop" at the head of the for loop, "called" while the call made for
   `cell` runs, "returned" when that call has handed back `ret`.  `entry`
   records the cells the activation found on entry. *)

Frame(fn, self, other, depth, alpha, beta, at, cells) ==
    [fn |-> fn, symbolSelf |-> self, symbolOther |-> other, depth |-> depth,
     alpha |-> alpha, beta |-> beta, cell |-> 0, bestMove |-> NoMove,
     at |-> at, entry |-> cells]

Top == stack[Len(stack)]

\* the innermost frame replaced by f
WithTop(f) == [stack EXCEPT ![Len(stack)] = f]

\* the symbol an activation places: the opponent's in minimise
Placed(f) == IF f.fn = "minimise" THEN f.symbolOther ELSE f.symbolSelf

\* the function an activation calls for each move it makes
Callee(f) == IF f.fn = "minimise" THEN "maximise" ELSE "minimise"

\* the first index from `cell` on at which the for loop does something:
\* a cell that is a valid move, or the loop bound
RECURSIVE NextCell(_, _, _)
NextCell(b, cell, symbol) ==
    IF ~(cell < getSize(b) * getSize(b)) THEN cell
    ELSE IF isValidMove(b, cell, symbol) THEN cell
    ELSE NextCell(b, cell + 1, symbol)

\* return `score` from the innermost minimise / maximise by return path
\* `path`, leaving cells `b`
Return(score, path, b) ==
    /\ ret' = score
    /\ returned' = [fn |-> Top.fn, path |-> path,
                    entry |-> Top.entry, exit |-> b.cells]
    /\ stack' = [SubSeq(stack, 1, Len(stack) - 1)
                    EXCEPT ![Len(stack) - 1].at = "returned"]

\* moveAI calls getBestMove: alpha and beta are set, the loop begins
EnterGetBestMove ==
    /\ pc = "moveAI"
    /\ pc' = "getBestMove"
    /\ stack' = <<Frame("getBestMove", symbolAI,
                        IF symbolAI = NOUGHT THEN CROSS ELSE NOUGHT,
                        0, SCORE_LOSE, SCORE_WIN, "loop", board.cells)>>
    /\ UNCHANGED <<board, allocated, overrun, found, symbolUser, symbolAI,
                   ret, returned>>

\* minimise up to its for loop: the end-state tests
MinimiseStart ==
    /\ pc = "getBestMove"
    /\ Top.fn = "minimise" /\ Top.at = "start"
    /\ IF isWin(board, Top.symbolOther)
       THEN Return(ToInt8(SCORE_LOSE + Top.depth), "lose", board)
       ELSE IF isDraw(board)
       THEN Return(SCORE_DRAW, "draw", board)
       ELSE /\ stack' = WithTop([Top EXCEPT !.at = "loop"])
            /\ UNCHANGED <<ret, returned>>
    /\ UNCHANGED <<board, allocated, overrun, found, pc, symbolUser, symbolAI>>

\* maximise up to its for loop: the end-state tests
MaximiseStart ==
    /\ pc = "getBestMove"
    /\ Top.fn = "maximise" /\ Top.at = "start"
    /\ IF isWin(board, Top.symbolSelf)
       THEN Return(ToInt8(SCORE_WIN - Top.depth), "win", board)
       ELSE IF isDraw(board)
       THEN Return(SCORE_DRAW, "draw", board)
       ELSE /\ stack' = WithTop([Top EXCEPT !.at = "loop"])
            /\ UNCHANGED <<ret, returned>>
    /\ UNCHANGED <<board, allocated, overrun, found, pc, symbolUser, symbolAI>>

\* MakeMove entering the callee at the depth of its caller
MakeMoveSameDepth ==
    /\ pc = "getBestMove"
    /\ Top.at = "loop"
    /\ LET cell == NextCell(board, Top.cell, Placed(Top))
       IN  /\ cell < getSize(board) * getSize(board)
           /\ IF ~setCellAsserts(board, cell, Placed(Top))
              THEN /\ pc' = AbortSetCell
                   /\ UNCHANGED <<board, stack>>
              ELSE /\ board' = setCell(board, cell, Placed(Top))
                   /\ stack' = Append(
                          WithTop([Top EXCEPT !.cell = cell, !.at = "called"]),
                          Frame(Callee(Top), Top.symbolSelf, Top.symbolOther,
                                Top.depth, Top.alpha, Top.beta, "start",
                                board'.cells))
                   /\ pc' = pc
    /\ UNCHANGED <<allocated, overrun, found, symbolUser, symbolAI, ret, returned>>

\* The for loop of any of the three up to the next call: the move is made
\* with setCell and the callee is entered one ply deeper.
MakeMove ==
    /\ pc = "getBestMove"
    /\ Top.at = "loop"
    /\ LET cell == NextCell(board, Top.cell, Placed(Top))
       IN  /\ cell < getSize(board) * getSize(board)
           /\ IF ~setCellAsserts(board, cell, Placed(Top))
              THEN /\ pc' = AbortSetCell
                   /\ UNCHANGED <<board, stack>>
              ELSE /\ board' = setCell(board, cell, Placed(Top))
                   /\ stack' = Append(
                          WithTop([Top EXCEPT !.cell = cell, !.at = "called"]),
                          Frame(Callee(Top), Top.symbolSelf, Top.symbolOther,
                                Top.depth + 1, Top.alpha, Top.beta, "start",
                                board'.cells))
                   /\ pc' = pc
    /\ UNCHANGED <<allocated, overrun, found, symbolUser, symbolAI, ret, returned>>

\* MinimiseUnmake with the pruning return taken before the move is unmade
MinimiseUnmakeAfterPrune ==
    /\ pc = "getBestMove"
    /\ Top.fn = "minimise" /\ Top.at = "returned"
    /\ LET beta == min(Top.beta, ret)
       IN  IF beta <= Top.alpha
           THEN /\ Return(Top.alpha, "pruned", board)
                /\ UNCHANGED <<board, pc>>
           ELSE /\ board' = setCell(board, Top.cell, EMPTY)
                /\ pc' = pc
                /\ stack' = WithTop([Top EXCEPT !.beta = beta,
                                          !.cell = Top.cell + 1,
                                          !.at = "loop"])
                /\ UNCHANGED <<ret, returned>>
    /\ UNCHANGED <<allocated, overrun, found, symbolUser, symbolAI>>

\* minimise after maximise came back: unmake the move, lower beta, prune
MinimiseUnmake ==
    /\ pc = "getBestMove"
    /\ Top.fn = "minimise" /\ Top.at = "returned"
    /\ IF ~setCellAsserts(board, Top.cell, EMPTY)
       THEN /\ pc' = AbortSetCell
            /\ UNCHANGED <<board, stack, ret, returned>>
       ELSE /\ board' = setCell(board, Top.cell, EMPTY)
            /\ pc' = pc
            /\ LET beta == min(Top.beta, ret)
               IN  IF beta <= Top.alpha
                   THEN Return(Top.alpha, "pruned", board')
                   ELSE /\ stack' = WithTop([Top EXCEPT !.beta = beta,
                                                  !.cell = Top.cell + 1,
                                                  !.at = "loop"])
                        /\ UNCHANGED <<ret, returned>>
    /\ UNCHANGED <<allocated, overrun, found, symbolUser, symbolAI>>

\* maximise after minimise came back: unmake the move, raise alpha, prune
MaximiseUnmake ==
    /\ pc = "getBestMove"
    /\ Top.fn = "maximise" /\ Top.at = "returned"
    /\ IF ~setCellAsserts(board, Top.cell, EMPTY)
       THEN /\ pc' = AbortSetCell
            /\ UNCHANGED <<board, stack, ret, returned>>
       ELSE /\ board' = setCell(board, Top.cell, EMPTY)
            /\ pc' = pc
            /\ LET alpha == max(Top.alpha, ret)
               IN  IF alpha >= Top.beta
                   THEN Return(Top.beta, "pruned", board')
                   ELSE /\ stack' = WithTop([Top EXCEPT !.alpha = alpha,
                                                  !.cell = Top.cell + 1,
                                                  !.at = "loop"])
                        /\ UNCHANGED <<ret, returned>>
    /\ UNCHANGED <<allocated, overrun, found, symbolUser, symbolAI>>

\* getBestMove after minimise came back: unmake the move, keep a better one
GetBestMoveUnmake ==
    /\ pc = "getBestMove"
    /\ Top.fn = "getBestMove" /\ Top.at = "returned"
    /\ IF ~setCellAsserts(board, Top.cell, EMPTY)
       THEN /\ pc' = AbortSetCell
            /\ UNCHANGED <<board, stack>>
       ELSE /\ board' = setCell(board, Top.cell, EMPTY)
            /\ pc' = pc
            /\ stack' = WithTop(
                   IF ret > Top.alpha
                   THEN [Top EXCEPT !.alpha = ret, !.bestMove = Top.cell,
                                    !.cell = Top.cell + 1, !.at = "loop"]
                   ELSE [Top EXCEPT !.cell = Top.cell + 1, !.at = "loop"])
    /\ UNCHANGED <<allocated, overrun, found, symbolUser, symbolAI, ret, returned>>

\* the for loop of minimise or maximise runs out: return beta, or alpha
LoopEnd ==
    /\ pc = "getBestMove"
    /\ Top.fn # "getBestMove" /\ Top.at = "loop"
    /\ ~(NextCell(board, Top.cell, Placed(Top)) < getSize(board) * getSize(board))
    /\ Return(IF Top.fn = "minimise" THEN Top.beta ELSE Top.alpha, "loop end", board)
    /\ UNCHANGED <<board, allocated, overrun, found, pc, symbolUser, symbolAI>>

\* the for loop of getBestMove runs out: the closing assertion, then the
\* return of bestMove to moveAI
GetBestMoveEnd ==
    /\ pc = "getBestMove"
    /\ Top.fn = "getBestMove" /\ Top.at = "loop"
    /\ ~(NextCell(board, Top.cell, Placed(Top)) < getSize(board) * getSize(board))
    /\ found' = [asserted |-> ~(Top.alpha # SCORE_LOSE), cell |-> Top.bestMove,
                 score |-> Top.alpha, board |-> board]
    /\ IF found'.asserted
       THEN /\ pc' = AbortGetBestMove
            /\ UNCHANGED <<stack, returned>>
       ELSE /\ pc' = "moveAI setCell"
            /\ stack' = <<>>
            /\ returned' = [fn |-> Top.fn, path |-> "loop end",
                            entry |-> Top.entry, exit |-> board.cells]
    /\ UNCHANGED <<board, allocated, overrun, symbolUser, symbolAI, ret>>

\* moveAI places the cell getBestMove returned
MoveAISetCell ==
    /\ pc = "moveAI setCell"
    /\ ApplyMove(board, found.cell, symbolAI, "moveUser")
    /\ UNCHANGED <<allocated, overrun, found, symbolUser, symbolAI, searchVars>>

NextSteps ==
    \/ \E validSize \in BOOLEAN, input \in Keys : GetSymbol(validSize, input)
    \/ \E validSize \in BOOLEAN, input \in Keys : MoveUser(validSize, input)
    \/ \E validSize \in BOOLEAN, input \in Keys : IsReplay(validSize, input)
    \/ EnterGetBestMove
    \/ MinimiseStart
    \/ MaximiseStart
    \/ MakeMove
    \/ MinimiseUnmake
    \/ MaximiseUnmake
    \/ GetBestMoveUnmake
    \/ LoopEnd
    \/ GetBestMoveEnd
    \/ MoveAISetCell

SpecSteps == Init /\ [][NextSteps]_vars

\* a step of the running search: a function that was called runs on
SearchStep ==
    \/ MinimiseStart
    \/ MaximiseStart
    \/ MakeMove
    \/ MinimiseUnmake
    \/ MaximiseUnmake
    \/ GetBestMoveUnmake
    \/ LoopEnd
    \/ GetBestMoveEnd

\* SpecSteps with the search, once called, running on to its next step
SpecStepsFair == SpecSteps /\ WF_vars(SearchStep)

----------------------------------------------------------------------------
(* SpecLoops: the for loops over the cells, one action per pass, on boards
   of every size in LoopSizes.  The counter `cell` is a uint8_t; the bound
   size * size is computed in int.  The frame of a running loop is the one
   entry of `stack`. *)

\* the largest size the loops are run with
MaxSize == 17

LoopSizes == 1 .. MaxSize

\* conversion of an int to uint8_t (the type of `cell`)
ToUint8(x) == x % 256

\* what a malloc'ed char holds before it is written
Uninitialised == "?"

\* the locals of resetBoard and isDraw at the head of their loops
LoopFrame(fn) == [fn |-> fn, cell |-> 0]

\* A filling of a board of `size` that leaves no line to either symbol
\* (size > 2): alternating symbols, the two ends of column 0 exchanged.
DrawnFill(size, cell) ==
    LET row == cell \div size
        col == cell % size
        exchanged == (col = 0 /\ (row = 0 \/ row = size - 1))
    IN  IF ((row + col) % 2 = 0) # exchanged THEN NOUGHT ELSE CROSS

\* initBoard(size) up to its call of resetBoard
InitLoops ==
    /\ \E size \in LoopSizes :
           /\ board = [size |-> size,
                       cells |-> [c \in 0 .. (size * size - 1) |-> Uninitialised]]
           /\ allocated = mallocCells(size)
    /\ overrun = FALSE
    /\ pc = "resetBoard"
    /\ stack = <<LoopFrame("resetBoard")>>
    /\ found = NotCalled
    /\ symbolUser = EMPTY
    /\ symbolAI = EMPTY
    /\ ret = 0
    /\ returned = NoCall

\* a call of resetBoard on a created board
CallResetBoard ==
    /\ pc = "board"
    /\ pc' = "resetBoard"
    /\ stack' = <<LoopFrame("resetBoard")>>
    /\ UNCHANGED <<board, allocated, overrun, found, symbolUser, symbolAI,
                   ret, returned>>

\* one pass of resetBoard's loop: the test, the write, cell += 1
ResetBoardStep ==
    /\ pc = "resetBoard"
    /\ IF Top.cell < board.size * board.size
       THEN /\ board' = [board EXCEPT !.cells[Top.cell] = EMPTY]
            /\ overrun' = (overrun \/ Overruns({Top.cell}, allocated))
            /\ stack' = WithTop([Top EXCEPT !.cell = ToUint8(Top.cell + 1)])
            /\ pc' = pc
       ELSE /\ pc' = "board"
            /\ stack' = <<>>
            /\ UNCHANGED <<board, overrun>>
    /\ UNCHANGED <<allocated, found, symbolUser, symbolAI, ret, returned>>

\* setCell on the first Empty cell, with the symbol DrawnFill gives it
FillNextCell ==
    /\ pc = "board"
    /\ Count(board, EMPTY) # 0
    /\ LET cell == CHOOSE c \in DOMAIN board.cells :
                       /\ board.cells[c] = EMPTY
                       /\ \A d \in 0 .. (c - 1) : board.cells[d] # EMPTY
       IN  /\ setCellAsserts(board, cell, DrawnFill(board.size, cell))
           /\ board' = setCell(board, cell, DrawnFill(board.size, cell))
           /\ overrun' = (overrun \/ Overruns({cell}, allocated))
    /\ UNCHANGED <<allocated, found, pc, symbolUser, symbolAI, searchVars>>

\* isDraw up to its loop: no draw if there is a win
CallIsDraw ==
    /\ pc = "board"
    /\ IF isWin(board, NOUGHT) \/ isWin(board, CROSS)
       THEN /\ ret' = 0
            /\ UNCHANGED <<pc, stack>>
       ELSE /\ pc' = "isDraw"
            /\ stack' = <<LoopFrame("isDraw")>>
            /\ ret' = ret
    /\ UNCHANGED <<board, allocated, overrun, found, symbolUser, symbolAI, returned>>

\* one pass of isDraw's loop: the test, the read, cell += 1
IsDrawStep ==
    /\ pc = "isDraw"
    /\ IF ~(Top.cell < board.size * board.size)
       THEN /\ ret' = 1
            /\ pc' = "board"
            /\ stack' = <<>>
            /\ overrun' = overrun
       ELSE /\ overrun' = (overrun \/ Overruns({Top.cell}, allocated))
            /\ IF board.cells[Top.cell] = EMPTY
               THEN /\ ret' = 0
                    /\ pc' = "board"
                    /\ stack' = <<>>
               ELSE /\ stack' = WithTop([Top EXCEPT !.cell = ToUint8(Top.cell + 1)])
                    /\ UNCHANGED <<pc, ret>>
    /\ UNCHANGED <<board, allocated, found, symbolUser, symbolAI, returned>>

\* getBestMove called on a board without an Empty cell, up to its loop
CallGetBestMoveFull(symbolSelf) ==
    /\ pc = "board"
    /\ Count(board, EMPTY) = 0
    /\ pc' = "getBestMove cells"
    /\ stack' = <<Frame("getBestMove", symbolSelf,
                        IF symbolSelf = NOUGHT THEN CROSS ELSE NOUGHT,
                        0, SCORE_LOSE, SCORE_WIN, "loop", board.cells)>>
    /\ UNCHANGED <<board, allocated, overrun, found, symbolUser, symbolAI,
                   ret, returned>>

\* One pass of getBestMove's loop where the cell is no valid move: the test,
\* isValidMove, cell += 1; after the loop the closing assertion fails, no
\* move having been scored.
GetBestMoveStep ==
    /\ pc = "getBestMove cells"
    /\ IF ~(Top.cell < getSize(board) * getSize(board))
       THEN /\ found' = [asserted |-> ~(Top.alpha # SCORE_LOSE), cell |-> Top.bestMove,
                         score |-> Top.alpha, board |-> board]
            /\ pc' = AbortGetBestMove
            /\ UNCHANGED <<stack, overrun>>
       ELSE /\ ~isValidMove(board, Top.cell, Top.symbolSelf)
            /\ overrun' = (overrun \/ Overruns({Top.cell}, allocated))
            /\ stack' = WithTop([Top EXCEPT !.cell = ToUint8(Top.cell + 1)])
            /\ UNCHANGED <<pc, found>>
    /\ UNCHANGED <<board, allocated, symbolUser, symbolAI, ret, returned>>

NextLoops ==
    \/ CallResetBoard
    \/ ResetBoardStep
    \/ FillNextCell
    \/ CallIsDraw
    \/ IsDrawStep
    \/ \E symbolSelf \in {NOUGHT, CROSS} : CallGetBestMoveFull(symbolSelf)
    \/ GetBestMoveStep

SpecLoops == InitLoops /\ [][NextLoops]_vars

----------------------------------------------------------------------------
(* Properties *)

Other(symbol) == IF symbol = NOUGHT THEN CROSS ELSE NOUGHT

Cells(b) == 0 .. (b.size * b.size - 1)

EmptyCells(b) == {c \in Cells(b) : b.cells[c] = EMPTY}

\* The game-theoretic reference, by exhaustive enumeration without pruning
\* or scores: `symbol` wins from b, with `mover` to move, whatever the
\* opponent does.
RECURSIVE ForcesWin(_, _, _)
ForcesWin(b, symbol, mover) ==
    IF isWin(b, symbol) THEN TRUE
    ELSE IF isWin(b, Other(symbol)) \/ EmptyCells(b) = {} THEN FALSE
    ELSE IF mover = symbol
    THEN \E c \in EmptyCells(b) : ForcesWin(setCell(b, c, mover), symbol, Other(mover))
    ELSE \A c \in EmptyCells(b) : ForcesWin(setCell(b, c, mover), symbol, Other(mover))

\* the moves of `symbol` on b after which it wins by force / cannot lose
WinningMoves(b, symbol) ==
    {c \in EmptyCells(b) : ForcesWin(setCell(b, c, symbol), symbol, Other(symbol))}
SafeMoves(b, symbol) ==
    {c \in EmptyCells(b) :
        ~ForcesWin(setCell(b, c, symbol), Other(symbol), Other(symbol))}

\* the cells that complete a line of `symbol` at once
ImmediateWins(b, symbol) ==
    {c \in EmptyCells(b) : isWin(setCell(b, c, symbol), symbol)}

\* getBestMove returned a cell (its closing assertion held)
Returned == found # NotCalled /\ ~found.asserted

\* C1: in a game run by the driver the user never has a winning line: a
\* game that reached an end state is a draw or a win of the AI.
C1_UserNeverWins ==
    symbolUser # EMPTY =>
        /\ ~isWin(board, symbolUser)
        /\ isEndState(board, symbolUser, symbolAI) =>
               (isWin(board, symbolAI) \/ isDraw(board))

C1_Witness ==
    /\ pc = "isReplay"
    /\ symbolUser = NOUGHT
    /\ isWin(board, symbolAI)

\* C2: on every non-terminal position of legal alternating play the cell
\* getBestMove returns for the side to move wins by force if some move does,
\* and otherwise avoids defeat if some move does.
C2_BestOutcome ==
    found # NotCalled =>
        LET self == SideToMove(board)
            winning == WinningMoves(board, self)
            safe == SafeMoves(board, self)
        IN  /\ winning # {} => (Returned /\ found.cell \in winning)
            /\ (winning = {} /\ safe # {}) => (Returned /\ found.cell \in safe)

C2_Witness ==
    /\ Returned
    /\ WinningMoves(board, SideToMove(board)) # {}
    /\ found.cell \in WinningMoves(board, SideToMove(board))
    /\ ImmediateWins(board, SideToMove(board)) = {}

\* C3: on a non-terminal position of legal alternating play (which has an
\* Empty cell) getBestMove passes its closing assertion and returns a cell
\* that is Empty on that board.
C3_ReturnsEmptyCell ==
    found # NotCalled =>
        (~found.asserted /\ found.cell \in EmptyCells(board))

\* C4: when the side to move can complete a line at once, getBestMove
\* returns a cell that completes one.
C4_TakesImmediateWin ==
    found # NotCalled =>
        LET self == SideToMove(board)
        IN  ImmediateWins(board, self) # {} =>
                (Returned /\ found.cell \in ImmediateWins(board, self))

\* Nought on {0, 4}, Cross on {1}
DiagonalThreat ==
    [c \in 0 .. 8 |-> IF c \in {0, 4} THEN NOUGHT ELSE IF c = 1 THEN CROSS ELSE EMPTY]

C6_BoardRestored == returned.entry = returned.exit

C6_Witness ==
    /\ returned.fn = "minimise"
    /\ returned.path = "pruned"
    /\ Len(stack) > 2
    /\ returned.exit # [c \in 0 .. 8 |-> EMPTY]

\* C7: no setCell of the driver or of the search fails an assertion, and a
\* cell changes only from Empty to a symbol or from a symbol to Empty.
C7_SetCellPreconditions ==
    /\ [](pc # AbortSetCell)
    /\ [][\A c \in DOMAIN board.cells :
              board'.cells[c] # board.cells[c] =>
                  (board.cells[c] = EMPTY \/ board'.cells[c] = EMPTY)]_vars

C7_Witness ==
    /\ pc = "getBestMove"
    /\ Top.at = "returned"
    /\ Count(board, symbolUser) > 1
    /\ Count(board, symbolAI) > Count(board, symbolUser)

\* the index sets of the rows, the columns and the two diagonals
Lines(n) ==
    {{r * n + i : i \in 0 .. (n - 1)} : r \in 0 .. (n - 1)}
        \cup {{c + n * i : i \in 0 .. (n - 1)} : c \in 0 .. (n - 1)}
        \cup {{i * n + i : i \in 0 .. (n - 1)}}
        \cup {{(n - 1 - i) * n + i : i \in 0 .. (n - 1)}}

\* column `col` holds `symbol` and every other cell is Empty
OnlyColumn(b, col, symbol) ==
    \A c \in Cells(b) :
        b.cells[c] = (IF c % b.size = col THEN symbol ELSE EMPTY)

\* C8: isWin holds of a symbol exactly when the symbol fills a row, a
\* column or one of the two diagonals; one filled column of a size-4 board
\* is a win of its symbol and not of the other.
C8_IsWinIffLine ==
    /\ \A symbol \in Symbols :
           isWin(board, symbol) <=>
               \E line \in Lines(board.size) :
                   \A c \in line : board.cells[c] = symbol
    /\ \A col \in 0 .. (board.size - 1), symbol \in {NOUGHT, CROSS} :
           (board.size = 4 /\ OnlyColumn(board, col, symbol)) =>
               (isWin(board, symbol) /\ ~isWin(board, Other(symbol)))

C8_Witness ==
    /\ board.size = 4
    /\ OnlyColumn(board, 2, CROSS)
    /\ isWin(board, CROSS)

\* C9: isDraw holds exactly when neither symbol has won and no cell is
\* Empty.
C9_IsDrawIff ==
    isDraw(board) <=>
        /\ ~isWin(board, NOUGHT)
        /\ ~isWin(board, CROSS)
        /\ EmptyCells(board) = {}

C9_Witness ==
    /\ board.size = BOARD_SIZE
    /\ EmptyCells(board) = {}
    /\ isWin(board, NOUGHT)
    /\ ~isDraw(board)

\* C10: the block of a created board holds size * size cells, and no
\* access of a board operation falls outside it.
C10_CellsInsideBlock ==
    /\ allocated = board.size * board.size
    /\ ~overrun

\* C11: in every game of the driver the moves alternate between the two
\* symbols, Nought first: the number of Nought cells less the number of Cross
\* cells is always 0 or 1, the one waiting to move is the user exactly when
\* the side to move is the user's symbol, every move adds one symbol of the
\* side to move and changes nothing else, and a game starts from an
\* all-Empty board.
C11_MovesAlternate ==
    /\ [](/\ Count(board, NOUGHT) - Count(board, CROSS) \in {0, 1}
          /\ pc = "moveUser" => SideToMove(board) = symbolUser
          /\ pc = "moveAI" => SideToMove(board) = symbolAI)
    /\ [][/\ (pc = "getSymbol" /\ pc' # "exit") => EmptyCells(board') = Cells(board')
          /\ (pc # "getSymbol" /\ board' # board) =>
                 \E c \in EmptyCells(board) :
                     board' = setCell(board, c, SideToMove(board))]_vars

C11_Witness ==
    /\ pc = "moveUser"
    /\ symbolUser = CROSS
    /\ Count(board, NOUGHT) = 2
    /\ Count(board, CROSS) = 1
    /\ found # NotCalled

\* C12: minimise and maximise never place a symbol on a board that is
\* already terminal: whenever one of them stands at its for loop with a move
\* left to make, neither symbolSelf nor symbolOther has won and the board is
\* not a draw.
C12_NoMoveOnTerminal ==
    (/\ pc = "getBestMove"
     /\ Top.fn # "getBestMove"
     /\ Top.at = "loop"
     /\ NextCell(board, Top.cell, Placed(Top)) < getSize(board) * getSize(board))
        => /\ ~isWin(board, Top.symbolSelf)
           /\ ~isWin(board, Top.symbolOther)
           /\ ~isDraw(board)

\* The reference minimax, exhaustive and without pruning: the value for
\* `symbol` of b reached after `depth` plies with `mover` to move.  A board
\* `symbol` has won is worth SCORE_WIN - depth, one it has lost
\* SCORE_LOSE + depth, a full one SCORE_DRAW; the mover takes the
\* maximum (symbol) or the minimum (its opponent) over all Empty cells.
RECURSIVE Minimax(_, _, _, _)
Minimax(b, symbol, mover, depth) ==
    IF isWin(b, symbol) THEN SCORE_WIN - depth
    ELSE IF isWin(b, Other(symbol)) THEN SCORE_LOSE + depth
    ELSE IF EmptyCells(b) = {} THEN SCORE_DRAW
    ELSE LET values == {Minimax(setCell(b, c, mover), symbol, Other(mover), depth + 1) :
                           c \in EmptyCells(b)}
         IN  IF mover = symbol
             THEN CHOOSE v \in values : \A w \in values : w <= v
             ELSE CHOOSE v \in values : \A w \in values : v <= w

\* the reference value of each move of `symbol` on b, as a set of <<cell, value>>
MoveValues(b, symbol) ==
    {<<c, Minimax(setCell(b, c, symbol), symbol, Other(symbol), 1)>> :
        c \in EmptyCells(b)}

\* the moves of the greatest reference value
BestMoves(values) ==
    {m[1] : m \in {n \in values : \A o \in values : o[2] <= n[2]}}

\* the greatest reference value
BestValue(values) ==
    CHOOSE v \in {m[2] : m \in values} : \A o \in values : o[2] <= v

\* C13: where the side to move can force a win, getBestMove returns a move
\* that wins in the fewest plies against best resistance (a win after d
\* plies is worth SCORE_WIN - d); where it loses by force, a move that
\* loses in the most plies (a loss after d plies is worth SCORE_LOSE + d).
C13_ShortestWinLongestLoss ==
    found # NotCalled =>
        LET values == MoveValues(board, SideToMove(board))
        IN  BestValue(values) # SCORE_DRAW =>
                (Returned /\ found.cell \in BestMoves(values))

\* C14: getBestMove returns the cell of exhaustive unpruned minimax: the
\* lowest-index cell among those of the greatest reference value.
C14_SameCellAsUnpruned ==
    found # NotCalled =>
        LET best == BestMoves(MoveValues(board, SideToMove(board)))
        IN  /\ Returned
            /\ found.cell = CHOOSE c \in best : \A d \in best : c <= d

\* C15: in every board the driver produces and in every board the search
\* produces by making and unmaking moves, at most one of Nought and Cross
\* has a winning line.
C15_AtMostOneWinner ==
    ~(isWin(board, NOUGHT) /\ isWin(board, CROSS))

\* C16: the driver calls getBestMove only on a board that is not in an end
\* state: at every moveAI call neither symbol has won, the board is not a
\* draw and a cell is Empty; a move of the user is asked for only on such a
\* board too, and once a game has ended or the user has quit the board does
\* not change until the next game resets it.
C16_MoveAIOnOpenBoard ==
    /\ [](pc = "moveAI" =>
              /\ ~isWin(board, NOUGHT)
              /\ ~isWin(board, CROSS)
              /\ ~isDraw(board)
              /\ EmptyCells(board) # {})
    /\ [](pc = "moveUser" => ~isEndState(board, symbolUser, symbolAI))
    /\ [][(pc = "isReplay" \/ pc = "exit") => board' = board]_vars

C16_Witness ==
    /\ pc = "moveAI"
    /\ symbolUser = NOUGHT
    /\ Count(board, NOUGHT) = 4
    /\ Count(board, CROSS) = 3
    /\ ~isEndState(board, symbolUser, symbolAI)

\* C17: in the cell loops of resetBoard, isDraw and getBestMove the counter
\* goes up by one with every pass and never wraps round to a smaller value
\* before the bound size * size is reached, so each cell is visited once.
C17_CellCounterNeverWraps ==
    [][(/\ stack # <<>>
        /\ stack' # <<>>
        /\ pc \in {"resetBoard", "isDraw", "getBestMove cells"}
        /\ pc' = pc)
           => stack'[Len(stack')].cell = Top.cell + 1]_vars

\* the number of occupied cells among `cells`
Occupied(cells) == Cardinality({c \in DOMAIN cells : cells[c] # EMPTY})

\* C18: getBestMove terminates.  Every call of minimise / maximise is made
\* with exactly one more occupied cell than its caller and one more ply of
\* depth, the depth never exceeds the number of Empty cells at the call of
\* getBestMove (at most size * size), and a getBestMove that was called
\* returns to moveAI.
C18_SearchTerminates ==
    /\ [](pc = "getBestMove" =>
              \A i \in 1 .. Len(stack) :
                  /\ stack[i].depth = i - 1
                  /\ Occupied(stack[i].entry) = Occupied(stack[1].entry) + stack[i].depth
                  /\ stack[i].depth <= Cardinality(DOMAIN stack[1].entry)
                                           - Occupied(stack[1].entry)
                  /\ stack[i].depth <= BOARD_SIZE * BOARD_SIZE)
    /\ (pc = "getBestMove") ~> (pc = "moveAI setCell")

C18_Witness ==
    /\ pc = "moveAI setCell"
    /\ returned.fn = "getBestMove"
    /\ Occupied(board.cells) = 0

============================================================================
